---- MODULE Spec2Model ----
(***************************************************************************)
(* Verisage multi-LLM oracle: the Huey job tasks (src/src/workers.py), the *)
(* fan-out round of Oracle (src/src/oracle.py) and the weighted scorer     *)
(* (src/src/scoring.py).                                                   *)
(*                                                                         *)
(* Numbers: a confidence is an integer number of hundredths (90 = 0.90), a *)
(* weight an integer number of tenths (10 = 1.0).  A normalized score is   *)
(* the exact rational <<num, den>>; the floating point rounding of the     *)
(* Python code is not modelled.                                            *)
(***************************************************************************)
EXTENDS Integers, Sequences, FiniteSets, TLC

\* ---------------------------------------------------------------- bounds
NumJobs == 2
MaxResponses == 3

\* ------------------------------------------------------- program constants
HueyRetries == 2
MaxFailedAgents == 2
DefaultWeight == 10

None == "None"

\* ------------------------------------------------------------ settings
ProviderOrder == <<"claude", "gemini", "perplexity", "openai", "grok">>
MockOrder == <<"mock-claude", "mock-gemini", "mock-perplexity", "mock-openai", "grok">>

ProviderKeys == {ProviderOrder[i] : i \in 1..Len(ProviderOrder)}

RECURSIVE SelectSeq2(_, _)
SelectSeq2(s, keep) ==
    IF s = <<>> THEN <<>>
    ELSE IF Head(s) \in keep THEN <<Head(s)>> \o SelectSeq2(Tail(s), keep)
         ELSE SelectSeq2(Tail(s), keep)

\* Oracle.__init__: the configured client keys, in dict insertion order.
OracleClients(st) ==
    IF st.debug_mock THEN MockOrder ELSE SelectSeq2(ProviderOrder, st.keys)

\* An Oracle that asks for one API key only.
OracleInitRaisesBelowOne(st) ==
    ~st.debug_mock /\ Cardinality(st.keys) < 1

\* Oracle.__init__ raises ValueError with fewer than two API keys.
OracleInitRaises(st) ==
    ~st.debug_mock /\ Cardinality(st.keys) < 2

\* provider_name each client puts in its payload.
ClientProviderName(st, key) ==
    IF st.debug_mock /\ key = "grok" THEN "mock-grok" ELSE key

\* Oracle.__init__: self.weights (every weight setting at its default 1.0).
OracleWeights(st) ==
    [k \in {OracleClients(st)[i] : i \in 1..Len(OracleClients(st))} |-> DefaultWeight]

Jobs == 1..NumJobs

VARIABLES
    settings,         \* src.config.settings, fixed at process start
    oracle_instance,  \* oracle._oracle_instance: None or the Oracle assigned last
    oracle,           \* task local `oracle`: what get_oracle() returned to the job
    kind,             \* which task a job was enqueued as: "query" | "tweet"
    status,           \* job store: JobStatus of each job
    result,           \* job store: stored result of each job
    error,            \* job store: stored error message of each job
    pc,               \* position of the job's task execution
    retries,          \* Huey: retries left for the job's task
    raised,           \* whether the task function raised out to Huey
    exc,              \* exception in flight inside the task (None if none)
    local,            \* task local `result` / `signed_result`
    responses,        \* local `responses` of the running round (<<>> before the join)
    call,             \* per provider: state of the coroutine of the round
    slots,            \* asyncio.gather's result holder: <<index, response>> pairs
    attempts,         \* history: number of executions of the job's task
    outOfOrder,       \* history: a call settled before an earlier-configured one
    in_responses,     \* scorer input: response list
    in_weights,       \* scorer input: weight map
    scored,           \* scorer output
    raw_response,     \* parser input: the raw text of a model
    parsed            \* parser output: the returned tuple, or the exception raised

jobvars == <<settings, oracle_instance, oracle, kind, status, result, error, pc, retries,
             raised, exc, local, responses, call, slots, attempts, outOfOrder>>
scorevars == <<in_responses, in_weights, scored, raw_response, parsed>>
parsevars == <<raw_response, parsed>>
vars == <<settings, oracle_instance, oracle, kind, status, result, error, pc, retries,
          raised, exc, local, responses, call, slots, attempts, outOfOrder,
          in_responses, in_weights, scored, raw_response, parsed>>

\* ------------------------------------------------------------ scoring.py
\* Exact rationals <<num, den>> with den > 0.
ZeroAsHalf == <<1, 2>>
Zero == <<0, 1>>
RatEq(a, b) == a[1] * b[2] = b[1] * a[2]

Abs(x) == IF x < 0 THEN -x ELSE x

\* A filter that lets the failed responses through.
ValidResponsesAll(rs) == rs

\* [r for r in responses if r.error is None]
ValidResponses(rs) == SelectSeq(rs, LAMBDA r : r.error = None)

\* self.weights.get(response.provider, 1.0)
WeightOf(w, p) == IF p \in DOMAIN w THEN w[p] ELSE DefaultWeight

\* A total that counts the first valid response only.
TotalWeightOfFirst(w, valid) ==
    IF valid = <<>> THEN 0 ELSE WeightOf(w, Head(valid).provider)

RECURSIVE TotalWeight(_, _)
TotalWeight(w, valid) ==
    IF valid = <<>> THEN 0
    ELSE WeightOf(w, Head(valid).provider) + TotalWeight(w, Tail(valid))

\* Class a valid response is credited to in dispute scoring.
DisputeClass(r) ==
    IF r.winning_party # None THEN r.winning_party
    ELSE IF r.decision = "yes" THEN "A"
    ELSE IF r.decision = "no" THEN "B"
    ELSE "uncertain"

\* Class a valid response is credited to in legacy scoring.
LegacyClass(r) == r.decision

\* Class a valid tweet response is credited to.
TweetClass(r) == r.verdict

\* decision_scores[c]: sum of weight * confidence over the valid responses of class c.
\* The class a valid response is credited to, by scoring mode.
ClassOf(mode, r) ==
    IF mode = "dispute" THEN DisputeClass(r)
    ELSE IF mode = "legacy" THEN LegacyClass(r)
    ELSE TweetClass(r)

RECURSIVE ClassScore(_, _, _, _)
ClassScore(w, valid, mode, c) ==
    IF valid = <<>> THEN 0
    ELSE (IF ClassOf(mode, Head(valid)) = c
          THEN WeightOf(w, Head(valid).provider) * Head(valid).confidence
          ELSE 0)
         + ClassScore(w, Tail(valid), mode, c)

\* A maximum search that keeps the smaller score.
RECURSIVE FirstMaxPicksLess(_, _, _)
FirstMaxPicksLess(order, score, best) ==
    IF order = <<>> THEN best
    ELSE FirstMaxPicksLess(Tail(order), score,
                  IF score[Head(order)] < score[best] THEN Head(order) ELSE best)

\* max(normalized_scores.items(), key=...): the first class, in dict order, whose
\* score is maximal.
RECURSIVE FirstMax(_, _, _)
FirstMax(order, score, best) ==
    IF order = <<>> THEN best
    ELSE FirstMax(Tail(order), score,
                  IF score[Head(order)] > score[best] THEN Head(order) ELSE best)

Winning(order, score) == FirstMax(Tail(order), score, Head(order))

\* decision_scores as a dict: class -> sum.
Scores(w, valid, mode, order) ==
    [c \in {order[i] : i \in 1..Len(order)} |-> ClassScore(w, valid, mode, c)]

DisputeOrder == <<"A", "B", "uncertain">>
LegacyOrder == <<"yes", "no", "uncertain">>
TweetOrder == <<"credible", "questionable", "misleading", "opinion">>

\* A tie rule that compares the two scores for equality.
TieBreakExact(first, second, tw) == first = second /\ first > 0

\* abs(a_score - b_score) < 0.01 and a_score > 0, on the sums before division by
\* total_weight: a normalized score is sum / (100 * tw), so |x - y| < 0.01 is
\* |sx - sy| < tw.
TieBreak(first, second, tw) == Abs(first - second) < tw /\ first > 0

\* The branch after normalisation, shared by the two-class modes (tw > 0).
TwoClassDecide(order, score, tw) ==
    LET win == Winning(order, score)
    IN  IF score[win] <= 0
          THEN [decision |-> "uncertain", confidence |-> Zero]
        ELSE IF TieBreak(score[order[1]], score[order[2]], tw)
          THEN [decision |-> "uncertain", confidence |-> <<score[win], 100 * tw>>]
        ELSE [decision |-> win, confidence |-> <<score[win], 100 * tw>>]

\* One line of the explanation per response handed to the generator.
\* The decision an explanation line shows for a response, by scoring mode.
ExplainedClass(mode, r) ==
    IF mode = "dispute"
    THEN (IF r.winning_party # None THEN r.winning_party ELSE r.decision)
    ELSE IF mode = "legacy" THEN r.decision
    ELSE r.verdict

\* An explanation that loses the line of the last response.
ExplanationLinesDropLast(w, rs, mode) ==
    [i \in 1..(Len(rs) - 1) |->
        [provider |-> rs[i].provider, weight |-> WeightOf(w, rs[i].provider),
         decision |-> ExplainedClass(mode, rs[i]), confidence |-> rs[i].confidence]]

ExplanationLines(w, rs, mode) ==
    [i \in 1..Len(rs) |->
        [provider |-> rs[i].provider, weight |-> WeightOf(w, rs[i].provider),
         decision |-> ExplainedClass(mode, rs[i]), confidence |-> rs[i].confidence]]

\* _generate_dispute_explanation: called with the valid responses.
GenerateDisputeExplanation(w, rs, tw) ==
    IF rs = <<>> THEN [all_failed |-> TRUE, total_weight |-> tw, lines |-> <<>>]
    ELSE [all_failed |-> FALSE, total_weight |-> tw,
          lines |-> ExplanationLines(w, rs, "dispute")]

\* _generate_explanation: called with the valid responses.
GenerateExplanation(w, rs, tw) ==
    IF rs = <<>> THEN [all_failed |-> TRUE, total_weight |-> tw, lines |-> <<>>]
    ELSE [all_failed |-> FALSE, total_weight |-> tw,
          lines |-> ExplanationLines(w, rs, "legacy")]

\* _generate_tweet_summary: called with the valid responses.
GenerateTweetSummary(w, rs, tw) ==
    IF rs = <<>> THEN [all_failed |-> TRUE, total_weight |-> tw, lines |-> <<>>]
    ELSE [all_failed |-> FALSE, total_weight |-> tw,
          lines |-> ExplanationLines(w, rs, "tweet")]

AggregateDisputeResponses(w, rs) ==
    LET valid == ValidResponses(rs)
        tw == TotalWeight(w, valid)
        score == Scores(w, valid, "dispute", DisputeOrder)
        d == IF tw = 0 THEN [decision |-> "uncertain", confidence |-> Zero]
             ELSE TwoClassDecide(DisputeOrder, score, tw)
    IN  [mode |-> "dispute",
         final_decision |-> d.decision,
         final_confidence |-> d.confidence,
         explanation |-> GenerateDisputeExplanation(w, valid, tw),
         llm_responses |-> rs,
         total_weight |-> tw,
         signature |-> None,
         public_key |-> None]

AggregateLegacyResponses(w, rs) ==
    LET valid == ValidResponses(rs)
        tw == TotalWeight(w, valid)
        score == Scores(w, valid, "legacy", LegacyOrder)
        d == IF tw = 0 THEN [decision |-> "uncertain", confidence |-> Zero]
             ELSE TwoClassDecide(LegacyOrder, score, tw)
    IN  [mode |-> "legacy",
         final_decision |-> IF d.decision = "yes" THEN "A"
                            ELSE IF d.decision = "no" THEN "B" ELSE "uncertain",
         final_confidence |-> d.confidence,
         explanation |-> GenerateExplanation(w, valid, tw),
         llm_responses |-> rs,
         total_weight |-> tw,
         signature |-> None,
         public_key |-> None]

\* aggregate_responses: dispute scoring as soon as one valid response names a
\* winning party.
AggregateResponses(w, rs) ==
    IF \E i \in 1..Len(rs) : rs[i].error = None /\ rs[i].winning_party # None
    THEN AggregateDisputeResponses(w, rs)
    ELSE AggregateLegacyResponses(w, rs)

AggregateTweetResponses(w, rs) ==
    LET valid == ValidResponses(rs)
        tw == TotalWeight(w, valid)
        score == Scores(w, valid, "tweet", TweetOrder)
        win == Winning(TweetOrder, score)
        d == IF tw = 0 \/ score[win] <= 0
             THEN [decision |-> "questionable", confidence |-> Zero]
             ELSE [decision |-> win, confidence |-> <<score[win], 100 * tw>>]
    IN  [mode |-> "tweet",
         final_verdict |-> d.decision,
         final_confidence |-> d.confidence,
         explanation |-> GenerateTweetSummary(w, valid, tw),
         llm_responses |-> rs,
         total_weight |-> tw,
         signature |-> None,
         public_key |-> None]

\* ------------------------------------------------- llm_clients/base.py
\* Python strings are sequences of one-character strings, so that strip(),
\* lower(), upper(), "in" and split() are computed.
\* The string literals of the parsers; Fence is the three backquotes of a fence,
\* as one symbol.
Lit ==
    [yes |-> <<"y", "e", "s">>,
     no |-> <<"n", "o">>,
     uncertain |-> <<"u", "n", "c", "e", "r", "t", "a", "i", "n">>,
     A |-> <<"A">>,
     B |-> <<"B">>,
     DRAW |-> <<"D", "R", "A", "W">>,
     Invalid |-> <<"I", "n", "v", "a", "l", "i", "d">>,
     credible |-> <<"c", "r", "e", "d", "i", "b", "l", "e">>,
     questionable |-> <<"q", "u", "e", "s", "t", "i", "o", "n", "a", "b", "l", "e">>,
     misleading |-> <<"m", "i", "s", "l", "e", "a", "d", "i", "n", "g">>,
     opinion |-> <<"o", "p", "i", "n", "i", "o", "n">>,
     None |-> <<"N", "o", "n", "e">>,
     True |-> <<"T", "r", "u", "e">>,
     False |-> <<"F", "a", "l", "s", "e">>,
     nan |-> <<"n", "a", "n">>,
     inf |-> <<"i", "n", "f">>,
     infinity |-> <<"i", "n", "f", "i", "n", "i", "t", "y">>,
     WinningParty |-> <<"W", "i", "n", "n", "i", "n", "g", " ", "p", "a", "r", "t", "y", ":", " ">>,
     ContractValidity |-> <<"C", "o", "n", "t", "r", "a", "c", "t", " ", "v", "a", "l", "i", "d", "i", "t", "y", ":", " ">>,
     Injection |-> <<"I", "n", "j", "e", "c", "t", "i", "o", "n", " ", "d", "e", "t", "e", "c", "t", "e", "d", ":", " ", "t", "r", "u", "e">>,
     Bar |-> <<" ", "|", " ">>,
     json |-> <<"j", "s", "o", "n">>,
     JSON |-> <<"J", "S", "O", "N">>,
     Fence |-> <<"fence">>]

\* The keywords of the keyword scan and the keys the parsers look up.
Key ==
    [DECISION |-> <<"D", "E", "C", "I", "S", "I", "O", "N", ":">>,
     CONFIDENCE |-> <<"C", "O", "N", "F", "I", "D", "E", "N", "C", "E", ":">>,
     REASONING |-> <<"R", "E", "A", "S", "O", "N", "I", "N", "G", ":">>,
     winning_party |-> <<"w", "i", "n", "n", "i", "n", "g", "_", "p", "a", "r", "t", "y">>,
     decision |-> <<"d", "e", "c", "i", "s", "i", "o", "n">>,
     confidence |-> <<"c", "o", "n", "f", "i", "d", "e", "n", "c", "e">>,
     reasoning |-> <<"r", "e", "a", "s", "o", "n", "i", "n", "g">>,
     contract_validity |-> <<"c", "o", "n", "t", "r", "a", "c", "t", "_", "v", "a", "l", "i", "d", "i", "t", "y">>,
     injection_detected |-> <<"i", "n", "j", "e", "c", "t", "i", "o", "n", "_", "d", "e", "t", "e", "c", "t", "e", "d">>,
     verdict |-> <<"v", "e", "r", "d", "i", "c", "t">>,
     analysis |-> <<"a", "n", "a", "l", "y", "s", "i", "s">>,
     identified_claims |-> <<"i", "d", "e", "n", "t", "i", "f", "i", "e", "d", "_", "c", "l", "a", "i", "m", "s">>,
     red_flags |-> <<"r", "e", "d", "_", "f", "l", "a", "g", "s">>]


Alphabet ==
    [lower |-> <<"a", "b", "c", "d", "e", "f", "g", "h", "i", "j", "k", "l", "m", "n", "o", "p", "q", "r", "s", "t", "u", "v", "w", "x", "y", "z">>,
     upper |-> <<"A", "B", "C", "D", "E", "F", "G", "H", "I", "J", "K", "L", "M", "N", "O", "P", "Q", "R", "S", "T", "U", "V", "W", "X", "Y", "Z">>,
     digits |-> <<"0", "1", "2", "3", "4", "5", "6", "7", "8", "9">>,
     space |-> {" ", "\t", "\n"}]

PosIn(c, letters) == CHOOSE i \in 1..Len(letters) : letters[i] = c
IsIn(c, letters) == \E i \in 1..Len(letters) : letters[i] = c

\* str.lower(), str.upper()
Lower(t) == [i \in 1..Len(t) |->
               IF IsIn(t[i], Alphabet.upper) THEN Alphabet.lower[PosIn(t[i], Alphabet.upper)]
               ELSE t[i]]
Upper(t) == [i \in 1..Len(t) |->
               IF IsIn(t[i], Alphabet.lower) THEN Alphabet.upper[PosIn(t[i], Alphabet.lower)]
               ELSE t[i]]

\* str.lstrip(), str.rstrip(), str.strip()
RECURSIVE LStrip(_)
LStrip(t) == IF t # <<>> /\ Head(t) \in Alphabet.space THEN LStrip(Tail(t)) ELSE t
RECURSIVE RStrip(_)
RStrip(t) ==
    IF t # <<>> /\ t[Len(t)] \in Alphabet.space THEN RStrip(SubSeq(t, 1, Len(t) - 1)) ELSE t
Strip(t) == RStrip(LStrip(t))

\* sub in t
Contains(t, sub) ==
    \E i \in 0..(Len(t) - Len(sub)) : SubSeq(t, i + 1, i + Len(sub)) = sub

\* t.split(":", 1)[1]: what follows the first colon (the callers have checked
\* that there is one).
AfterColon(t) ==
    LET i == CHOOSE k \in 1..Len(t) : t[k] = ":" /\ \A m \in 1..(k - 1) : t[m] # ":"
    IN  SubSeq(t, i + 1, Len(t))

\* sep.join(parts)
RECURSIVE Join2(_, _)
Join2(sep, parts) ==
    IF parts = <<>> THEN <<>>
    ELSE IF Len(parts) = 1 THEN parts[1]
    ELSE parts[1] \o sep \o Join2(sep, Tail(parts))

\* Python floats, in hundredths: a finite value, nan, or an infinity (v = 1 or
\* v = -1).
Fin(n) == [k |-> "fin", v |-> n]
NaN == [k |-> "nan", v |-> 0]
Inf(sign) == [k |-> "inf", v |-> sign]

\* a < b on floats: every comparison with nan is False.
FLess(a, b) ==
    IF a.k = "nan" \/ b.k = "nan" THEN FALSE
    ELSE IF a.k = "inf" THEN a.v < 0 /\ ~(b.k = "inf" /\ b.v < 0)
    ELSE IF b.k = "inf" THEN b.v > 0
    ELSE a.v < b.v

\* _clamp_conf: max(0.0, min(1.0, value)); min and max return their first
\* argument unless the second is strictly smaller (larger).
ClampConf(value) ==
    LET PyMin(a, b) == IF FLess(b, a) THEN b ELSE a
        PyMax(a, b) == IF FLess(a, b) THEN b ELSE a
    IN  PyMax(Fin(0), PyMin(Fin(100), value))

\* Value of a digit string, and the digit string of a natural number.
RECURSIVE DigitsVal(_)
DigitsVal(t) ==
    IF t = <<>> THEN 0
    ELSE 10 * DigitsVal(SubSeq(t, 1, Len(t) - 1)) + (PosIn(t[Len(t)], Alphabet.digits) - 1)
RECURSIVE DigitsOf(_)
DigitsOf(n) ==
    IF n < 10 THEN <<Alphabet.digits[n + 1]>> ELSE DigitsOf(n \div 10) \o <<Alphabet.digits[(n % 10) + 1]>>
AllDigits(t) == \A i \in 1..Len(t) : IsIn(t[i], Alphabet.digits)

\* float(text) for the texts of the inputs: surrounding whitespace, a sign,
\* then nan, inf, infinity (any case) or digits with an optional point and at
\* most two fractional digits; every other text of the inputs is a ValueError.
\* Exponents, underscores and longer fractions are not among the inputs.
PyFloatStr(text) ==
    LET Unsigned(t) ==
            IF Lower(t) = Lit.nan THEN [exc |-> None, val |-> NaN]
            ELSE IF Lower(t) \in {Lit.inf, Lit.infinity} THEN [exc |-> None, val |-> Inf(1)]
            ELSE IF t # <<>> /\ AllDigits(t) THEN [exc |-> None, val |-> Fin(100 * DigitsVal(t))]
            ELSE IF \E i \in 1..Len(t) :
                      /\ t[i] = "."
                      /\ AllDigits(SubSeq(t, 1, i - 1))
                      /\ AllDigits(SubSeq(t, i + 1, Len(t)))
                      /\ Len(t) > 1
                      /\ Len(t) - i <= 2
              THEN LET i == CHOOSE k \in 1..Len(t) : t[k] = "."
                       frac == SubSeq(t, i + 1, Len(t))
                   IN  [exc |-> None,
                        val |-> Fin(100 * DigitsVal(SubSeq(t, 1, i - 1))
                                    + (IF Len(frac) = 1 THEN 10 * DigitsVal(frac)
                                       ELSE DigitsVal(frac)))]
            ELSE [exc |-> "ValueError", val |-> NaN]
        Neg(r) ==
            IF r.exc # None \/ r.val.k = "nan" THEN r
            ELSE [exc |-> None, val |-> [k |-> r.val.k, v |-> 0 - r.val.v]]
        stripped == Strip(text)
    IN  IF stripped # <<>> /\ Head(stripped) = "-" THEN Neg(Unsigned(Tail(stripped)))
        ELSE IF stripped # <<>> /\ Head(stripped) = "+" THEN Unsigned(Tail(stripped))
        ELSE Unsigned(stripped)

\* JSON values as json.loads builds them. t is the Python type: "null"
\* (None), "bool", "int", "float", "bigint" (an int beyond the float range),
\* "nan" (the literal NaN), "str", "list", "obj" (dict). n is the number in
\* hundredths (0 or 1 for a bool), s the characters of a str, items the elements
\* of a list, f the <<key, value>> pairs of a dict in text order.
JV(t, n, s, items, f) == [t |-> t, n |-> n, s |-> s, items |-> items, f |-> f]
JNull == JV("null", 0, <<>>, <<>>, <<>>)
JBool(b) == JV("bool", IF b THEN 1 ELSE 0, <<>>, <<>>, <<>>)
JInt(n) == JV("int", 100 * n, <<>>, <<>>, <<>>)
JFloat(n) == JV("float", n, <<>>, <<>>, <<>>)
JBig == JV("bigint", 0, <<>>, <<>>, <<>>)
JNaN == JV("nan", 0, <<>>, <<>>, <<>>)
JStr(s) == JV("str", 0, s, <<>>, <<>>)
JList(items) == JV("list", 0, <<>>, items, <<>>)
JObj(f) == JV("obj", 0, <<>>, <<>>, f)

\* dict.get(key, default): the last pair of that key, as json.loads keeps it.
Get(o, key, default) ==
    IF \E i \in 1..Len(o.f) : o.f[i][1] = key
    THEN o.f[CHOOSE i \in 1..Len(o.f) :
                 o.f[i][1] = key /\ \A k \in (i + 1)..Len(o.f) : o.f[k][1] # key][2]
    ELSE default

\* bool(value)
Truthy(v) ==
    IF v.t = "null" THEN FALSE
    ELSE IF v.t \in {"bool", "int", "float"} THEN v.n # 0
    ELSE IF v.t = "str" THEN v.s # <<>>
    ELSE IF v.t = "list" THEN v.items # <<>>
    ELSE IF v.t = "obj" THEN v.f # <<>>
    ELSE TRUE

\* repr of a float in hundredths: 75 is 0.75, 150 is 1.5, 100 is 1.0.
FloatText(n) ==
    LET a == Abs(n)
        frac == a % 100
    IN  (IF n < 0 THEN <<"-">> ELSE <<>>) \o DigitsOf(a \div 100) \o <<".">>
        \o (IF frac % 10 = 0 THEN DigitsOf(frac \div 10)
            ELSE DigitsOf(frac \div 10) \o DigitsOf(frac % 10))

\* str(value). A bigint is written as its first digits, a list or dict by its
\* brackets around the str of its elements.
RECURSIVE PyStr(_)
PyStr(v) ==
    IF v.t = "str" THEN v.s
    ELSE IF v.t = "null" THEN Lit.None
    ELSE IF v.t = "bool" THEN (IF v.n = 1 THEN Lit.True ELSE Lit.False)
    ELSE IF v.t = "int"
      THEN (IF v.n < 0 THEN <<"-">> ELSE <<>>) \o DigitsOf(Abs(v.n) \div 100)
    ELSE IF v.t = "float" THEN FloatText(v.n)
    ELSE IF v.t = "nan" THEN Lit.nan
    ELSE IF v.t = "bigint" THEN <<"1", "0", "0", "0", "0">>
    ELSE IF v.t = "list"
      THEN <<"[">> \o Join2(<<",", " ">>, [i \in 1..Len(v.items) |-> PyStr(v.items[i])])
           \o <<"]">>
    ELSE <<"{">> \o Join2(<<",", " ">>,
                     [i \in 1..Len(v.f) |-> v.f[i][1] \o <<":", " ">> \o PyStr(v.f[i][2])])
         \o <<"}">>

\* float(value): the float, or the exception float() raises.
PyFloat(v) ==
    IF v.t \in {"int", "float", "bool"}
      THEN [exc |-> None, val |-> Fin(IF v.t = "bool" THEN 100 * v.n ELSE v.n)]
    ELSE IF v.t = "nan" THEN [exc |-> None, val |-> NaN]
    ELSE IF v.t = "bigint" THEN [exc |-> "OverflowError", val |-> NaN]
    ELSE IF v.t = "str" THEN PyFloatStr(v.s)
    ELSE [exc |-> "TypeError", val |-> NaN]


\* A raw text is the sequence of its parts between fences (stripped.split on
\* the three backquotes). A part is the tag that follows its opening fence and
\* its document: either a text json.loads accepts, with the value it yields, or
\* any other text, with its lines (text.split("\n"), so at least one line).
JsonDoc(value) == [json |-> TRUE, value |-> value, lines |-> <<>>]
TextDoc(lines) == [json |-> FALSE, value |-> JNull, lines |-> lines]
Part(tag, doc) == [tag |-> tag, doc |-> doc]
Raw(parts) == [parts |-> parts]
NoRaw == Raw(<<>>)


\* _clean_json_text: without a fence the stripped text; with one, what follows
\* the first fence up to the next one, a leading json/JSON tag removed. Any
\* other tag stays in the text, which then is not JSON.
CleanJsonText(raw) ==
    IF Len(raw.parts) >= 2
    THEN (IF raw.parts[2].tag \in {<<>>, Lit.json, Lit.JSON}
          THEN raw.parts[2].doc
          ELSE TextDoc(<<raw.parts[2].tag>> \o raw.parts[2].doc.lines))
    ELSE raw.parts[1].doc

\* json.loads
JsonLoads(doc) ==
    IF doc.json THEN [exc |-> None, value |-> doc.value]
    ELSE [exc |-> "JSONDecodeError", value |-> JNull]

\* raw_response.split("\n"): the lines of every part, a fence line with its tag
\* before each part after the first. A JSON document stands on one line, which
\* holds none of the keywords.
RECURSIVE RawLinesFrom(_, _)
RawLinesFrom(raw, i) ==
    IF i > Len(raw.parts) THEN <<>>
    ELSE (IF i = 1 THEN <<>> ELSE <<Lit.Fence \o raw.parts[i].tag>>)
         \o (IF raw.parts[i].doc.json THEN <<<<"{", "}">>>> ELSE raw.parts[i].doc.lines)
         \o RawLinesFrom(raw, i + 1)
RawLines(raw) == RawLinesFrom(raw, 1)

\* A rationale: the characters s, or the raw text itself (whole).
Text(s) == [whole |-> FALSE, s |-> s]
WholeRaw == [whole |-> TRUE, s |-> <<>>]

\* What a parser hands back: the tuple, or the exception that leaves it.
Returned(decision, confidence, reasoning, winning_party) ==
    [exc |-> None, decision |-> decision, confidence |-> confidence,
     reasoning |-> reasoning, winning_party |-> winning_party,
     identified_claims |-> <<>>, red_flags |-> <<>>, parser |-> "none"]
Raised(e) ==
    [exc |-> e, decision |-> <<>>, confidence |-> NaN, reasoning |-> Text(<<>>),
     winning_party |-> None, identified_claims |-> <<>>, red_flags |-> <<>>,
     parser |-> "none"]
NoParse == Raised("none")

\* try: confidence = _clamp_conf(float(raw_confidence))
\* except (TypeError, ValueError): confidence = 0.5
ConfidenceOf(raw_confidence) ==
    LET x == PyFloat(raw_confidence)
    IN  IF x.exc = None THEN [exc |-> None, val |-> ClampConf(x.val)]
        ELSE IF x.exc \in {"TypeError", "ValueError"} THEN [exc |-> None, val |-> Fin(50)]
        ELSE [exc |-> x.exc, val |-> NaN]

\* A decision check that hands the model's string through.
DecisionOfPassThrough(raw_decision) == raw_decision

\* if raw_decision in {"yes", "no", "uncertain"}: decision = raw_decision
\* else: decision = "uncertain"
DecisionOf(raw_decision) ==
    IF raw_decision \in {Lit.yes, Lit.no, Lit.uncertain} THEN raw_decision
    ELSE Lit.uncertain

\* The same check for the verdict of a tweet analysis.
VerdictOf(raw_verdict) ==
    IF raw_verdict \in {Lit.credible, Lit.questionable, Lit.misleading, Lit.opinion}
    THEN raw_verdict
    ELSE Lit.questionable

\* The enum member a validated winning_party string names.
WinningPartyOf(winning_party_str) ==
    IF winning_party_str = Lit.A THEN "A"
    ELSE IF winning_party_str = Lit.B THEN "B"
    ELSE "uncertain"

\* A rationale taken without strip().
RationaleOfUnstripped(reasoning_value) ==
    IF reasoning_value.t = "null" THEN <<>> ELSE PyStr(reasoning_value)

\* reasoning / analysis of the decision format: None gives "", anything else
\* str(value).strip().
RationaleOf(reasoning_value) ==
    IF reasoning_value.t = "null" THEN <<>> ELSE Strip(PyStr(reasoning_value))

\* The winning_party branch of the JSON path.
ParseDisputeFormat(obj, winning_party_raw, confidence) ==
    LET winning_party_str == Upper(Strip(PyStr(winning_party_raw)))
        valid == winning_party_str \in {Lit.DRAW, Lit.A, Lit.B}
        shown == IF valid THEN winning_party_str ELSE Lit.Invalid
        decision == IF winning_party_str \in {Lit.A, Lit.B} THEN Lit.yes
                    ELSE Lit.uncertain
        contract_validity == Get(obj, Key.contract_validity, JStr(<<>>))
        injection_detected == Get(obj, Key.injection_detected, JBool(FALSE))
        reasoning_parts ==
            (IF shown # <<>> /\ shown # Lit.Invalid
             THEN <<Lit.WinningParty \o shown>> ELSE <<>>)
            \o (IF Truthy(contract_validity)
                THEN <<Lit.ContractValidity \o PyStr(contract_validity)>> ELSE <<>>)
            \o (IF Truthy(injection_detected) THEN <<Lit.Injection>> ELSE <<>>)
        reasoning_value == Get(obj, Key.reasoning, JStr(<<>>))
        reasoning ==
            IF Truthy(reasoning_value)
            THEN Strip(PyStr(reasoning_value))
                 \o (IF reasoning_parts # <<>>
                     THEN Lit.Bar \o Join2(Lit.Bar, reasoning_parts) ELSE <<>>)
            ELSE Join2(Lit.Bar, reasoning_parts)
    IN  Returned(decision, confidence, Text(reasoning),
                 IF valid THEN WinningPartyOf(winning_party_str) ELSE "uncertain")

\* The decision branch of the JSON path.
ParseDecisionFormat(obj, confidence) ==
    Returned(DecisionOf(Lower(Strip(PyStr(Get(obj, Key.decision, JStr(<<>>)))))),
             confidence,
             Text(RationaleOf(Get(obj, Key.reasoning, JNull))),
             None)

\* The JSON path: parsed.get on anything but a dict is an AttributeError, which
\* the except clause (json.JSONDecodeError, TypeError) does not name; nor does
\* it name the OverflowError of float().
ParseJsonValue(value) ==
    IF value.t # "obj" THEN Raised("AttributeError")
    ELSE LET winning_party_raw == Get(value, Key.winning_party, JNull)
             conf == ConfidenceOf(Get(value, Key.confidence, JFloat(50)))
         IN  IF conf.exc # None THEN Raised(conf.exc)
             ELSE IF winning_party_raw.t # "null"
               THEN ParseDisputeFormat(value, winning_party_raw, conf.val)
             ELSE ParseDecisionFormat(value, conf.val)

\* if "yes" in decision_text ... elif "no" in decision_text ... else uncertain
LegacyDecisionOf(decision_text) ==
    IF Contains(decision_text, Lit.yes) THEN Lit.yes
    ELSE IF Contains(decision_text, Lit.no) THEN Lit.no
    ELSE Lit.uncertain

\* The keyword scan from line i on, st holding decision, confidence and
\* reasoning so far; the REASONING: line takes all later lines and ends it.
RECURSIVE LegacyScan(_, _, _)
LegacyScan(lines, i, st) ==
    IF i > Len(lines) THEN st
    ELSE LET line == lines[i]
             line_upper == Upper(line)
         IN  IF Contains(line_upper, Key.DECISION)
               THEN LegacyScan(lines, i + 1,
                      [st EXCEPT !.decision =
                          LegacyDecisionOf(Lower(Strip(AfterColon(line))))])
             ELSE IF Contains(line_upper, Key.CONFIDENCE)
               THEN LegacyScan(lines, i + 1,
                      [st EXCEPT !.confidence =
                          LET x == PyFloatStr(Strip(AfterColon(line)))
                          IN  IF x.exc = None THEN ClampConf(x.val) ELSE Fin(50)])
             ELSE IF Contains(line_upper, Key.REASONING)
               THEN [st EXCEPT !.reasoning =
                        Strip(AfterColon(line))
                        \o (IF i + 1 <= Len(lines)
                            THEN <<"\n">> \o Join2(<<"\n">>, SubSeq(lines, i + 1, Len(lines)))
                            ELSE <<>>)]
             ELSE LegacyScan(lines, i + 1, st)

\* The fallback of _parse_response; without a rationale from the scan the raw
\* text is the rationale.
ParseLegacy(raw) ==
    LET st == LegacyScan(RawLines(raw), 1,
                 [decision |-> Lit.uncertain, confidence |-> Fin(50), reasoning |-> <<>>])
    IN  Returned(st.decision, st.confidence,
                 IF st.reasoning = <<>> THEN WholeRaw ELSE Text(st.reasoning),
                 None)

\* BaseLLMClient._parse_response
ParseResponse(raw) ==
    LET loaded == JsonLoads(CleanJsonText(raw))
    IN  IF loaded.exc # None THEN ParseLegacy(raw) ELSE ParseJsonValue(loaded.value)

\* [str(c).strip() for c in value if c] for a list, [] for anything else.
StringList(value) ==
    IF value.t # "list" THEN <<>>
    ELSE LET kept == SelectSeq(value.items, Truthy)
         IN  [i \in 1..Len(kept) |-> Strip(PyStr(kept[i]))]

\* BaseLLMClient._parse_tweet_response
ParseTweetResponse(raw) ==
    LET loaded == JsonLoads(CleanJsonText(raw))
    IN  IF loaded.exc # None
          THEN Returned(Lit.questionable, Fin(50), WholeRaw, None)
        ELSE IF loaded.value.t # "obj" THEN Raised("AttributeError")
        ELSE LET obj == loaded.value
                 conf == ConfidenceOf(Get(obj, Key.confidence, JFloat(50)))
             IN  IF conf.exc # None THEN Raised(conf.exc)
                 ELSE [Returned(VerdictOf(Lower(Strip(PyStr(Get(obj, Key.verdict,
                                                                 JStr(<<>>)))))),
                                conf.val,
                                Text(RationaleOf(Get(obj, Key.analysis, JNull))),
                                None)
                       EXCEPT !.identified_claims =
                                  StringList(Get(obj, Key.identified_claims, JList(<<>>))),
                              !.red_flags =
                                  StringList(Get(obj, Key.red_flags, JList(<<>>)))]

\* ------------------------------------------------------------- oracle.py
\* Oracle(): the first instance built from the settings; id tells the objects
\* apart, in the order of their construction.
Oracle(st) ==
    [built |-> TRUE, id |-> 1, clients |-> OracleClients(st), weights |-> OracleWeights(st)]

\* _oracle_instance = None
NoOracle == [built |-> FALSE]

\* What one client.query(query) can do: return a parsed answer or an error-tagged
\* answer under its own provider_name, or raise.
QueryOutcomes(name) ==
    {[kind |-> "return",
      resp |-> [provider |-> name, decision |-> "yes", winning_party |-> None,
                confidence |-> 90, error |-> None]],
     [kind |-> "return",
      resp |-> [provider |-> name, decision |-> "no", winning_party |-> "B",
                confidence |-> 90, error |-> None]],
     [kind |-> "return",
      resp |-> [provider |-> name, decision |-> "uncertain", winning_party |-> None,
                confidence |-> 0, error |-> "Empty response"]],
     [kind |-> "raise", text |-> "ValidationError"]}

\* What client.analyze_tweet(tweet_url) can do.
TweetOutcomes(name) ==
    {[kind |-> "return",
      resp |-> [provider |-> name, verdict |-> "credible", confidence |-> 90,
                error |-> None]],
     [kind |-> "return",
      resp |-> [provider |-> name, verdict |-> "questionable", confidence |-> 0,
                error |-> "Empty response"]],
     [kind |-> "raise", text |-> "ValidationError"]}

\* _safe_query that forgets to record the exception text.
SafeQueryDropsError(provider_name, o) ==
    IF o.kind = "raise"
    THEN [provider |-> provider_name, decision |-> "uncertain",
          winning_party |-> None, confidence |-> 0, error |-> None]
    ELSE IF o.resp.provider # provider_name
    THEN [o.resp EXCEPT !.provider = provider_name]
    ELSE o.resp

\* _safe_query that trusts the provider name of the payload.
SafeQueryKeepsPayloadTag(provider_name, o) ==
    IF o.kind = "raise"
    THEN [provider |-> provider_name, decision |-> "uncertain",
          winning_party |-> None, confidence |-> 0, error |-> o.text]
    ELSE o.resp

\* Oracle._safe_query
SafeQuery(provider_name, o) ==
    IF o.kind = "raise"
    THEN [provider |-> provider_name, decision |-> "uncertain",
          winning_party |-> None, confidence |-> 0, error |-> o.text]
    ELSE IF o.resp.provider # provider_name
    THEN [o.resp EXCEPT !.provider = provider_name]
    ELSE o.resp

\* _safe_analyze_tweet that forgets to record the exception text.
SafeAnalyzeTweetDropsError(provider_name, o) ==
    IF o.kind = "raise"
    THEN [provider |-> provider_name, verdict |-> "questionable",
          confidence |-> 0, error |-> None]
    ELSE IF o.resp.provider # provider_name
    THEN [o.resp EXCEPT !.provider = provider_name]
    ELSE o.resp

\* Oracle._safe_analyze_tweet
SafeAnalyzeTweet(provider_name, o) ==
    IF o.kind = "raise"
    THEN [provider |-> provider_name, verdict |-> "questionable",
          confidence |-> 0, error |-> o.text]
    ELSE IF o.resp.provider # provider_name
    THEN [o.resp EXCEPT !.provider = provider_name]
    ELSE o.resp

\* A join that collects results as they arrive (asyncio.as_completed).
GatherStoreArrival(held, i, r) == Append(held, <<i, r>>)

\* asyncio.gather: the result of the awaitable at position i goes to position i.
RECURSIVE GatherStore(_, _, _)
GatherStore(held, i, r) ==
    IF held = <<>> THEN << <<i, r>> >>
    ELSE IF Head(held)[1] > i THEN << <<i, r>> >> \o held
    ELSE <<Head(held)>> \o GatherStore(Tail(held), i, r)

\* sum(1 for r in responses if r.error is not None)
FailedCount(rs) == Cardinality({i \in 1..Len(rs) : rs[i].error # None})

\* Threshold one too high.
TooManyFailedAboveThree(rs) == FailedCount(rs) > MaxFailedAgents + 1

\* Threshold compared with >=.
TooManyFailedAtTwo(rs) == FailedCount(rs) >= MaxFailedAgents

\* if failed_count > 2
TooManyFailed(rs) == FailedCount(rs) > MaxFailedAgents

Idle == [kind |-> "idle"]
Pending == [kind |-> "pending"]
Hung == [kind |-> "hung"]
\* A join that waits for a value from every call, also from one that raised.
SettledByReturn(c) == c.kind = "return"

\* A call that has finished: it returned or it raised.
Settled(c) == c.kind \in {"return", "raise"}

IndexOf(seq, x) == CHOOSE i \in 1..Len(seq) : seq[i] = x
InSeq(seq, x) == \E i \in 1..Len(seq) : seq[i] = x

\* ------------------------------------------------------------- job store
UpdateJobStatus(j, s) ==
    /\ status' = [status EXCEPT ![j] = s]
    /\ UNCHANGED <<result, error>>

UpdateJobResult(j, r) ==
    /\ status' = [status EXCEPT ![j] = "completed"]
    /\ result' = [result EXCEPT ![j] = r]
    /\ UNCHANGED error

UpdateJobError(j, msg) ==
    /\ status' = [status EXCEPT ![j] = "failed"]
    /\ error' = [error EXCEPT ![j] = msg]
    /\ UNCHANGED result

\* signing_service.sign_result
SignResult(r) == [r EXCEPT !.signature = "sig", !.public_key = "pk"]

\* Job store: no result / no error recorded.
NoResult == [mode |-> "none"]
NoError == <<>>

\* ------------------------------------------------------------- workers.py
ErrorPrefix(k) ==
    IF k = "query" THEN "Failed to process query: "
    ELSE "Failed to process tweet analysis: "

SettingsSet ==
    {[debug_mock |-> TRUE, keys |-> {}]}
    \cup {[debug_mock |-> FALSE, keys |-> K] : K \in SUBSET ProviderKeys}

\* The jobs of `active` have been created (pending) and their tasks enqueued; the
\* other job ids are not in use.
InitJobs(active, sts) ==
    /\ settings \in sts
    /\ oracle_instance = NoOracle
    /\ oracle = [j \in Jobs |-> NoOracle]
    /\ kind \in [Jobs -> {"query", "tweet", "none"}]
    /\ \A j \in Jobs : kind[j] = "none" <=> j \notin active
    /\ status = [j \in Jobs |-> IF j \in active THEN "pending" ELSE None]
    /\ result = [j \in Jobs |-> NoResult]
    /\ error = [j \in Jobs |-> NoError]
    /\ pc = [j \in Jobs |-> IF j \in active THEN "queued" ELSE "absent"]
    /\ retries = [j \in Jobs |-> HueyRetries]
    /\ raised = [j \in Jobs |-> FALSE]
    /\ exc = [j \in Jobs |-> None]
    /\ local = [j \in Jobs |-> NoResult]
    /\ responses = [j \in Jobs |-> <<>>]
    /\ call = [j \in Jobs |-> <<>>]
    /\ slots = [j \in Jobs |-> <<>>]
    /\ attempts = [j \in Jobs |-> 0]
    /\ outOfOrder = [j \in Jobs |-> FALSE]

InitParseIdle ==
    /\ raw_response = NoRaw
    /\ parsed = NoParse

InitScoreIdle ==
    /\ in_responses = <<>>
    /\ in_weights = <<>>
    /\ scored = NoResult
    /\ InitParseIdle

\* One job, under every configuration of the providers.
Init == InitJobs({1}, SettingsSet) /\ InitScoreIdle

\* Every job id in use, the tasks running concurrently on the consumer's workers,
\* with one API key (too few) or two.
PoolSettings ==
    {[debug_mock |-> FALSE, keys |-> {"grok"}],
     [debug_mock |-> FALSE, keys |-> {"claude", "grok"}]}

PoolInit == InitJobs(Jobs, PoolSettings) /\ InitScoreIdle

\* The Huey consumer takes the task off the queue and calls the function.
HueyExecute(j) ==
    /\ pc[j] = "queued"
    /\ pc' = [pc EXCEPT ![j] = "start"]
    /\ attempts' = [attempts EXCEPT ![j] = @ + 1]
    /\ raised' = [raised EXCEPT ![j] = FALSE]
    /\ UNCHANGED <<settings, oracle_instance, oracle, kind, status, result, error, retries,
                   exc, local, responses, call, slots, outOfOrder>>
    /\ UNCHANGED scorevars

\* A task that goes on to the Oracle without writing the status.
MarkProcessingSkipped(j) ==
    /\ pc[j] = "start"
    /\ pc' = [pc EXCEPT ![j] = "get_oracle"]
    /\ UNCHANGED <<settings, oracle_instance, oracle, kind, status, result, error, retries,
                   raised, exc, local, responses, call, slots, attempts, outOfOrder>>
    /\ UNCHANGED scorevars

\* job_store.update_job_status(job_id, JobStatus.PROCESSING)
MarkProcessing(j) ==
    /\ pc[j] = "start"
    /\ UpdateJobStatus(j, "processing")
    /\ pc' = [pc EXCEPT ![j] = "get_oracle"]
    /\ UNCHANGED <<settings, oracle_instance, oracle, kind, retries, raised, exc, local,
                   responses, call, slots, attempts, outOfOrder>>
    /\ UNCHANGED scorevars

\* oracle = get_oracle(), its test: if _oracle_instance is None
GetOracle(j) ==
    /\ pc[j] = "get_oracle"
    /\ pc' = [pc EXCEPT ![j] = IF oracle_instance.built THEN "return_oracle"
                                 ELSE "construct"]
    /\ UNCHANGED <<settings, oracle_instance, oracle, kind, status, result, error,
                   retries, raised, exc, local, responses, call, slots, attempts,
                   outOfOrder>>
    /\ UNCHANGED scorevars

\* _oracle_instance = Oracle(): the constructor raises, or a new instance is
\* assigned, whatever the variable holds by now.
ConstructOracle(j) ==
    /\ pc[j] = "construct"
    /\ IF OracleInitRaises(settings)
       THEN /\ exc' = [exc EXCEPT ![j] = "ValueError: At least 2 LLM providers are required"]
            /\ pc' = [pc EXCEPT ![j] = "except"]
            /\ UNCHANGED oracle_instance
       ELSE /\ oracle_instance' =
                 [Oracle(settings) EXCEPT
                    !.id = IF oracle_instance.built THEN oracle_instance.id + 1 ELSE 1]
            /\ pc' = [pc EXCEPT ![j] = "return_oracle"]
            /\ UNCHANGED exc
    /\ UNCHANGED <<settings, oracle, kind, status, result, error, retries, raised,
                   local, responses, call, slots, attempts, outOfOrder>>
    /\ UNCHANGED scorevars

\* return _oracle_instance
ReturnOracle(j) ==
    /\ pc[j] = "return_oracle"
    /\ oracle' = [oracle EXCEPT ![j] = oracle_instance]
    /\ pc' = [pc EXCEPT ![j] = "run"]
    /\ UNCHANGED <<settings, oracle_instance, kind, status, result, error, retries,
                   raised, exc, local, responses, call, slots, attempts, outOfOrder>>
    /\ UNCHANGED scorevars

\* resolve_dispute: one _safe_query coroutine per configured client, handed to gather.
ResolveDisputeStart(j) ==
    /\ pc[j] = "run"
    /\ kind[j] = "query"
    /\ call' = [call EXCEPT ![j] = [i \in 1..Len(oracle[j].clients) |-> Pending]]
    /\ slots' = [slots EXCEPT ![j] = <<>>]
    /\ pc' = [pc EXCEPT ![j] = "gather"]
    /\ UNCHANGED <<settings, oracle_instance, oracle, kind, status, result, error, retries,
                   raised, exc, local, responses, attempts, outOfOrder>>
    /\ UNCHANGED scorevars

\* One _safe_query coroutine finishes: client.query returned or raised.
Settle(j, i) ==
    /\ pc[j] = "gather"
    /\ i \in DOMAIN call[j]
    /\ call[j][i].kind = "pending"
    /\ \E o \in QueryOutcomes(ClientProviderName(settings, oracle[j].clients[i])) :
         /\ call' = [call EXCEPT ![j][i] = o]
         /\ slots' = [slots EXCEPT
                        ![j] = GatherStore(@, i, SafeQuery(oracle[j].clients[i], o))]
    /\ outOfOrder' = [outOfOrder EXCEPT
                        ![j] = @ \/ \E k \in 1..(i - 1) : ~Settled(call[j][k])]
    /\ UNCHANGED <<settings, oracle_instance, oracle, kind, status, result, error, pc, retries,
                   raised, exc, local, responses, attempts>>
    /\ UNCHANGED scorevars

\* A provider call that never settles.
Hang(j, i) ==
    /\ pc[j] \in {"gather", "await_grok"}
    /\ i \in DOMAIN call[j]
    /\ call[j][i].kind = "pending"
    /\ call' = [call EXCEPT ![j][i] = Hung]
    /\ UNCHANGED <<settings, oracle_instance, oracle, kind, status, result, error, pc, retries,
                   raised, exc, local, responses, slots, attempts, outOfOrder>>
    /\ UNCHANGED scorevars

\* gather returns once every coroutine has finished; then the failure threshold
\* and the scorer.
Join(j) ==
    /\ pc[j] = "gather"
    /\ \A i \in DOMAIN call[j] : Settled(call[j][i])
    /\ LET rs == [i \in 1..Len(slots[j]) |-> slots[j][i][2]]
       IN  /\ responses' = [responses EXCEPT ![j] = rs]
           /\ IF TooManyFailed(rs)
              THEN /\ exc' = [exc EXCEPT ![j] = "TooManyAgentsFailedError"]
                   /\ pc' = [pc EXCEPT ![j] = "except"]
                   /\ UNCHANGED local
              ELSE /\ local' = [local EXCEPT
                                  ![j] = AggregateResponses(oracle[j].weights, rs)]
                   /\ pc' = [pc EXCEPT ![j] = "sign"]
                   /\ UNCHANGED exc
    /\ slots' = [slots EXCEPT ![j] = <<>>]
    /\ UNCHANGED <<settings, oracle_instance, oracle, kind, status, result, error, retries,
                   raised, call, attempts, outOfOrder>>
    /\ UNCHANGED scorevars

\* analyze_tweet up to the await of Grok's call.
AnalyzeTweetStart(j) ==
    /\ pc[j] = "run"
    /\ kind[j] = "tweet"
    /\ IF ~InSeq(oracle[j].clients, "grok")
       THEN /\ exc' = [exc EXCEPT ![j] = "ValueError: Grok API key is required"]
            /\ pc' = [pc EXCEPT ![j] = "except"]
            /\ UNCHANGED call
       ELSE /\ call' = [call EXCEPT
                          ![j] = [i \in 1..Len(oracle[j].clients) |->
                                    IF oracle[j].clients[i] = "grok"
                                    THEN Pending ELSE Idle]]
            /\ pc' = [pc EXCEPT ![j] = "await_grok"]
            /\ UNCHANGED exc
    /\ UNCHANGED <<settings, oracle_instance, oracle, kind, status, result, error, retries,
                   raised, local, responses, slots, attempts, outOfOrder>>
    /\ UNCHANGED scorevars

\* Grok's call finishes; analyze_tweet runs to its end.
SettleTweet(j) ==
    /\ pc[j] = "await_grok"
    /\ LET g == IndexOf(oracle[j].clients, "grok")
       IN  /\ call[j][g].kind = "pending"
           /\ \E o \in TweetOutcomes(ClientProviderName(settings, "grok")) :
                LET grok_response == SafeAnalyzeTweet("grok", o)
                IN  /\ call' = [call EXCEPT ![j][g] = o]
                    /\ responses' = [responses EXCEPT ![j] = <<grok_response>>]
                    /\ IF grok_response.error # None
                       THEN /\ exc' = [exc EXCEPT ![j] = "TooManyAgentsFailedError"]
                            /\ pc' = [pc EXCEPT ![j] = "except"]
                            /\ UNCHANGED local
                       ELSE /\ local' = [local EXCEPT
                                           ![j] = AggregateTweetResponses(
                                                    oracle[j].weights,
                                                    <<grok_response>>)]
                            /\ pc' = [pc EXCEPT ![j] = "sign"]
                            /\ UNCHANGED exc
    /\ UNCHANGED <<settings, oracle_instance, oracle, kind, status, result, error, retries,
                   raised, slots, attempts, outOfOrder>>
    /\ UNCHANGED scorevars

\* signed_result = signing_service.sign_result(result)
Sign(j) ==
    /\ pc[j] = "sign"
    /\ \E ok \in BOOLEAN :
         IF ok
         THEN /\ local' = [local EXCEPT ![j] = SignResult(@)]
              /\ pc' = [pc EXCEPT ![j] = "store"]
              /\ UNCHANGED exc
         ELSE /\ exc' = [exc EXCEPT ![j] = "SigningError"]
              /\ pc' = [pc EXCEPT ![j] = "except"]
              /\ UNCHANGED local
    /\ UNCHANGED <<settings, oracle_instance, oracle, kind, status, result, error, retries,
                   raised, responses, call, slots, attempts, outOfOrder>>
    /\ UNCHANGED scorevars

\* job_store.update_job_result(job_id, signed_result)
StoreResult(j) ==
    /\ pc[j] = "store"
    /\ \E ok \in BOOLEAN :
         IF ok
         THEN /\ UpdateJobResult(j, local[j])
              /\ pc' = [pc EXCEPT ![j] = "return"]
              /\ UNCHANGED exc
         ELSE /\ exc' = [exc EXCEPT ![j] = "StoreError"]
              /\ pc' = [pc EXCEPT ![j] = "except"]
              /\ UNCHANGED <<status, result, error>>
    /\ UNCHANGED <<settings, oracle_instance, oracle, kind, retries, raised, local,
                   responses, call, slots, attempts, outOfOrder>>
    /\ UNCHANGED scorevars

\* A handler that catches the retryable condition only.
CaughtOnlyTooMany(e) == e = "TooManyAgentsFailedError"

\* Which exceptions `except Exception as e` catches.
Caught(e) == TRUE

\* A handler that records the error and re-raises for Huey to retry.
ReraisesToHuey == TRUE

\* Whether the handler lets the exception go on to Huey after recording it.
Reraises == FALSE

\* except Exception as e: job_store.update_job_error(job_id, error_msg)
ExceptHandler(j) ==
    /\ pc[j] = "except"
    /\ IF Caught(exc[j])
       THEN /\ UpdateJobError(j, <<ErrorPrefix(kind[j]), exc[j]>>)
            /\ raised' = [raised EXCEPT ![j] = Reraises]
       ELSE /\ raised' = [raised EXCEPT ![j] = TRUE]
            /\ UNCHANGED <<status, result, error>>
    /\ pc' = [pc EXCEPT ![j] = "return"]
    /\ UNCHANGED <<settings, oracle_instance, oracle, kind, retries, exc, local,
                   responses, call, slots, attempts, outOfOrder>>
    /\ UNCHANGED scorevars

\* @huey.task(retries=2, retry_delay=60): the consumer re-enqueues a task whose
\* function raised while retries are left.
HueyFinish(j) ==
    /\ pc[j] = "return"
    /\ IF raised[j] /\ retries[j] > 0
       THEN /\ pc' = [pc EXCEPT ![j] = "queued"]
            /\ retries' = [retries EXCEPT ![j] = @ - 1]
       ELSE /\ pc' = [pc EXCEPT ![j] = "done"]
            /\ UNCHANGED retries
    \* the function's frame is gone
    /\ exc' = [exc EXCEPT ![j] = None]
    /\ oracle' = [oracle EXCEPT ![j] = NoOracle]
    /\ local' = [local EXCEPT ![j] = NoResult]
    /\ responses' = [responses EXCEPT ![j] = <<>>]
    /\ call' = [call EXCEPT ![j] = <<>>]
    /\ slots' = [slots EXCEPT ![j] = <<>>]
    /\ outOfOrder' = [outOfOrder EXCEPT ![j] = FALSE]
    /\ UNCHANGED <<settings, oracle_instance, kind, status, result, error, raised,
                   attempts>>
    /\ UNCHANGED scorevars

JobStep(j) ==
    \/ HueyExecute(j)
    \/ MarkProcessing(j)
    \/ GetOracle(j)
    \/ ConstructOracle(j)
    \/ ReturnOracle(j)
    \/ ResolveDisputeStart(j)
    \/ \E i \in 1..Len(ProviderOrder) : Settle(j, i)
    \/ Join(j)
    \/ AnalyzeTweetStart(j)
    \/ SettleTweet(j)
    \/ Sign(j)
    \/ StoreResult(j)
    \/ ExceptHandler(j)
    \/ HueyFinish(j)

Next ==
    \/ \E j \in Jobs : JobStep(j)
    \/ \E j \in Jobs : \E i \in 1..Len(ProviderOrder) : Hang(j, i)

Spec == Init /\ [][Next]_vars

PoolSpec == PoolInit /\ [][Next]_vars

\* Every step of a running task is eventually taken; a provider call is free to
\* hang instead of settling.
FairSpec == Init /\ [][Next]_vars /\ \A j \in Jobs : WF_vars(JobStep(j))

\* ------------------------------------------------- the scorer on its own
ConfGrid == {0, 1, 50}

\* (decision, winning_party) of a valid answer.
AnswerPairs ==
    {<<"yes", None>>, <<"no", None>>, <<"uncertain", None>>,
     <<"yes", "A">>, <<"no", "B">>, <<"uncertain", "uncertain">>}

\* The answers a provider can contribute to a round: an error-tagged one or a
\* valid one.
ScoreAnswers(p) ==
    {[provider |-> p, decision |-> "uncertain", winning_party |-> None,
      confidence |-> 0, error |-> "Empty response"]}
    \cup {[provider |-> p, decision |-> a[1], winning_party |-> a[2],
           confidence |-> c, error |-> None] : a \in AnswerPairs, c \in ConfGrid}

\* Response lists as the fan-out hands them over: one answer per provider, in
\* configured order.
ResponseLists ==
    UNION {{rs \in [1..n -> UNION {ScoreAnswers(ProviderOrder[i]) : i \in 1..n}] :
              \A i \in 1..n : rs[i].provider = ProviderOrder[i]} : n \in 0..MaxResponses}

\* The scenario of three equal-weight providers: yes at 0.9, yes at 0.85, no at
\* 0.95.
ExampleLists ==
    {<<[provider |-> "claude", decision |-> "yes", winning_party |-> None,
        confidence |-> 90, error |-> None],
       [provider |-> "gemini", decision |-> "yes", winning_party |-> None,
        confidence |-> 85, error |-> None],
       [provider |-> "perplexity", decision |-> "no", winning_party |-> None,
        confidence |-> 95, error |-> None]>>}

\* Three providers that agree at the top of the confidence range, 1.0.
BoundaryLists ==
    {[i \in 1..3 |-> [provider |-> ProviderOrder[i], decision |-> a[1],
                      winning_party |-> a[2], confidence |-> 100, error |-> None]] :
       a \in {<<"yes", None>>, <<"no", "B">>}}
    \cup {[i \in 1..3 |-> [provider |-> ProviderOrder[i], verdict |-> "misleading",
                            confidence |-> 100, error |-> None]]}

TweetVerdicts == {"credible", "questionable", "misleading", "opinion"}

\* The tweet analyses a provider can contribute: an error-tagged one or a valid
\* one.
TweetAnswers(p) ==
    {[provider |-> p, verdict |-> "questionable", confidence |-> 0,
      error |-> "Empty response"]}
    \cup {[provider |-> p, verdict |-> v, confidence |-> c, error |-> None] :
            v \in TweetVerdicts, c \in ConfGrid}

TweetResponseLists ==
    UNION {{rs \in [1..n -> UNION {TweetAnswers(ProviderOrder[i]) : i \in 1..n}] :
              \A i \in 1..n : rs[i].provider = ProviderOrder[i]} : n \in 1..MaxResponses}

\* list[LLMResponse] and list[TweetLLMResponse]
IsQueryList(rs) == \A i \in 1..Len(rs) : "decision" \in DOMAIN rs[i]
IsTweetList(rs) == \A i \in 1..Len(rs) : "verdict" \in DOMAIN rs[i]

\* Weight maps: the defaults, and a map that doubles the first provider's weight
\* and leaves the third and later providers to the 1.0 default of the lookup.
WeightMaps ==
    {[p \in ProviderKeys |-> DefaultWeight],
     [p \in {"claude", "gemini"} |-> IF p = "claude" THEN 2 * DefaultWeight ELSE DefaultWeight]}

ScoreInit ==
    /\ InitJobs({}, {[debug_mock |-> TRUE, keys |-> {}]})
    /\ in_responses \in ResponseLists \cup ExampleLists \cup BoundaryLists
                        \cup TweetResponseLists
    /\ in_weights \in WeightMaps
    /\ scored = NoResult
    /\ InitParseIdle

CallAggregateResponses ==
    /\ scored.mode = "none"
    /\ IsQueryList(in_responses)
    /\ scored' = AggregateResponses(in_weights, in_responses)
    /\ UNCHANGED <<in_responses, in_weights>>
    /\ UNCHANGED parsevars
    /\ UNCHANGED jobvars

CallAggregateDispute ==
    /\ scored.mode = "none"
    /\ IsQueryList(in_responses)
    /\ scored' = AggregateDisputeResponses(in_weights, in_responses)
    /\ UNCHANGED <<in_responses, in_weights>>
    /\ UNCHANGED parsevars
    /\ UNCHANGED jobvars

CallAggregateLegacy ==
    /\ scored.mode = "none"
    /\ IsQueryList(in_responses)
    /\ scored' = AggregateLegacyResponses(in_weights, in_responses)
    /\ UNCHANGED <<in_responses, in_weights>>
    /\ UNCHANGED parsevars
    /\ UNCHANGED jobvars

CallAggregateTweet ==
    /\ scored.mode = "none"
    /\ IsTweetList(in_responses)
    /\ scored' = AggregateTweetResponses(in_weights, in_responses)
    /\ UNCHANGED <<in_responses, in_weights>>
    /\ UNCHANGED parsevars
    /\ UNCHANGED jobvars

ScoreNext ==
    \/ CallAggregateResponses
    \/ CallAggregateTweet
    \/ CallAggregateDispute
    \/ CallAggregateLegacy

ScoreSpec == ScoreInit /\ [][ScoreNext]_vars

\* ------------------------------------------------------- parser inputs
\* Texts of the raw answers the parsers are applied to, and lines of keyword
\* texts.
Txt ==
    [YES_padded |-> <<" ", "Y", "E", "S", " ">>,
     No |-> <<"N", "o">>,
     maybe |-> <<"m", "a", "y", "b", "e">>,
     a_lower |-> <<" ", "a", " ">>,
     Draw |-> <<"D", "r", "a", "w">>,
     C |-> <<"C">>,
     high |-> <<"h", "i", "g", "h">>,
     num_0_7 |-> <<"0", ".", "7">>,
     blank |-> <<" ", " ", " ">>,
     ok |-> <<"o", "k">>,
     valid |-> <<"v", "a", "l", "i", "d">>,
     Misleading_padded |-> <<" ", "M", "i", "s", "l", "e", "a", "d", "i", "n", "g", " ">>,
     fake |-> <<"f", "a", "k", "e">>,
     claim |-> <<" ", "c", "l", "a", "i", "m", " ", "o", "n", "e", " ">>,
     flag |-> <<"f", "l", "a", "g">>,
     python |-> <<"p", "y", "t", "h", "o", "n">>]

Line ==
    [prose |-> <<"H", "e", "r", "e", " ", "i", "s", " ", "m", "y", " ", "a", "n", "s", "w", "e", "r">>,
     decision_yes |-> <<"D", "E", "C", "I", "S", "I", "O", "N", ":", " ", "y", "e", "s">>,
     decision_NO |-> <<"d", "e", "c", "i", "s", "i", "o", "n", ":", " ", "N", "O">>,
     decision_maybe |-> <<"D", "E", "C", "I", "S", "I", "O", "N", ":", " ", "m", "a", "y", "b", "e">>,
     decision_unknown |-> <<"D", "E", "C", "I", "S", "I", "O", "N", ":", " ", "u", "n", "k", "n", "o", "w", "n">>,
     decision_eyes |-> <<"D", "e", "c", "i", "s", "i", "o", "n", ":", " ", "a", "l", "l", " ", "e", "y", "e", "s", " ", "o", "n", " ", "i", "t">>,
     decision_empty |-> <<"D", "E", "C", "I", "S", "I", "O", "N", ":">>,
     confidence_085 |-> <<"C", "O", "N", "F", "I", "D", "E", "N", "C", "E", ":", " ", "0", ".", "8", "5">>,
     confidence_15 |-> <<"C", "O", "N", "F", "I", "D", "E", "N", "C", "E", ":", " ", "1", ".", "5">>,
     confidence_neg |-> <<"c", "o", "n", "f", "i", "d", "e", "n", "c", "e", ":", " ", "-", "1">>,
     confidence_high |-> <<"C", "O", "N", "F", "I", "D", "E", "N", "C", "E", ":", " ", "h", "i", "g", "h">>,
     confidence_nan |-> <<"C", "O", "N", "F", "I", "D", "E", "N", "C", "E", ":", " ", "n", "a", "n">>,
     reasoning_ok |-> <<"R", "E", "A", "S", "O", "N", "I", "N", "G", ":", " ", "o", "k">>,
     reasoning_empty |-> <<"R", "E", "A", "S", "O", "N", "I", "N", "G", ":">>,
     more |-> <<"a", "n", "d", " ", "m", "o", "r", "e">>]

\* A field left out of a JSON object.
Absent == JV("absent", 0, <<>>, <<>>, <<>>)
Field(key, value) == IF value.t = "absent" THEN <<>> ELSE << <<key, value>> >>

ConfidenceValues ==
    {Absent, JNull, JFloat(75), JFloat(150), JFloat(0 - 50), JStr(Txt.high),
     JStr(Txt.num_0_7), JBool(TRUE), JBig, JNaN}
ReasoningValues == {Absent, JNull, JStr(Txt.blank), JStr(Txt.ok)}

\* JSON objects in the format of a query answer.
QueryObjects ==
    LET WinningPartyValues ==
            {Absent, JNull, JStr(Lit.A), JStr(Txt.a_lower), JStr(Lit.B), JStr(Txt.Draw),
             JStr(Txt.C), JInt(7)}
        DecisionValues ==
            {Absent, JNull, JStr(Lit.yes), JStr(Txt.YES_padded), JStr(Txt.No),
             JStr(Txt.maybe)}
    IN  {JObj(Field(Key.winning_party, w) \o Field(Key.decision, d)
              \o Field(Key.confidence, c) \o Field(Key.reasoning, r)
              \o Field(Key.contract_validity, v) \o Field(Key.injection_detected, i)) :
           w \in WinningPartyValues, d \in DecisionValues, c \in ConfidenceValues,
           r \in ReasoningValues, v \in {Absent, JStr(Txt.valid)},
           i \in {Absent, JBool(TRUE)}}

\* JSON objects in the format of a tweet analysis.
TweetObjects ==
    LET VerdictValues ==
            {Absent, JNull, JStr(Lit.credible), JStr(Txt.Misleading_padded),
             JStr(Txt.fake)}
        ListValues ==
            {Absent, JNull, JStr(Txt.flag),
             JList(<<JStr(Txt.claim), JStr(<<>>), JStr(Txt.blank), JInt(0),
                     JStr(Txt.flag)>>)}
    IN  {JObj(Field(Key.verdict, v) \o Field(Key.confidence, c)
              \o Field(Key.analysis, a) \o Field(Key.identified_claims, l)
              \o Field(Key.red_flags, f)) :
           v \in VerdictValues, c \in ConfidenceValues, a \in ReasoningValues,
           l \in ListValues, f \in {Absent, JList(<<JStr(Txt.flag)>>)}}

\* Texts json.loads rejects: the empty text, and keyword lines.
LegacyTexts ==
    LET Opt(line) == {<<>>, <<line>>}
    IN  {<< <<>> >>}
        \cup ({p \o d \o c \o r :
                p \in Opt(Line.prose),
                d \in Opt(Line.decision_yes) \cup Opt(Line.decision_NO)
                      \cup Opt(Line.decision_maybe) \cup Opt(Line.decision_unknown)
                      \cup Opt(Line.decision_eyes) \cup Opt(Line.decision_empty),
                c \in Opt(Line.confidence_085) \cup Opt(Line.confidence_15)
                      \cup Opt(Line.confidence_neg) \cup Opt(Line.confidence_high)
                      \cup Opt(Line.confidence_nan),
                r \in {<<>>, <<Line.reasoning_ok>>, <<Line.reasoning_empty>>,
                       <<Line.reasoning_ok, Line.more>>}} \ {<<>>})

\* Raw texts: one unfenced document (a JSON object, a JSON text that is not an
\* object, a text that is not JSON), or prose, a fence with a tag and a
\* document, and possibly a closing fence with more text or a second fenced
\* document.
RawTexts ==
    LET NonObjects ==
            {JNull, JBool(TRUE), JInt(42), JFloat(75), JNaN, JStr(Lit.yes), JList(<<>>)}
        FencedDocs ==
            {JsonDoc(JObj(Field(Key.decision, JStr(Lit.yes))
                          \o Field(Key.confidence, JFloat(75))
                          \o Field(Key.reasoning, JStr(Txt.ok)))),
             TextDoc(<<Line.decision_NO>>)}
    IN  {Raw(<<Part(<<>>, JsonDoc(v))>>) :
           v \in QueryObjects \cup TweetObjects \cup NonObjects}
        \cup {Raw(<<Part(<<>>, TextDoc(l))>>) : l \in LegacyTexts}
        \cup {Raw(<<Part(<<>>, TextDoc(<<Line.prose>>)), Part(t, d)>> \o rest) :
                t \in {<<>>, Lit.json, Lit.JSON, Txt.python}, d \in FencedDocs,
                rest \in {<<>>, <<Part(<<>>, TextDoc(<<Line.more>>))>>,
                          <<Part(<<>>, TextDoc(<<Line.more>>)),
                            Part(Lit.json,
                                 JsonDoc(JObj(Field(Key.decision, JStr(Lit.no)))))>>}}

ParseInit ==
    /\ InitJobs({}, {[debug_mock |-> TRUE, keys |-> {}]})
    /\ in_responses = <<>>
    /\ in_weights = <<>>
    /\ scored = NoResult
    /\ raw_response \in RawTexts
    /\ parsed = NoParse

CallParseResponse ==
    /\ parsed.parser = "none"
    /\ parsed' = [ParseResponse(raw_response) EXCEPT !.parser = "query"]
    /\ UNCHANGED <<raw_response, in_responses, in_weights, scored>>
    /\ UNCHANGED jobvars

CallParseTweetResponse ==
    /\ parsed.parser = "none"
    /\ parsed' = [ParseTweetResponse(raw_response) EXCEPT !.parser = "tweet"]
    /\ UNCHANGED <<raw_response, in_responses, in_weights, scored>>
    /\ UNCHANGED jobvars

ParseNext ==
    \/ CallParseResponse
    \/ CallParseTweetResponse

ParseSpec == ParseInit /\ [][ParseNext]_vars

\* ================================================================ claims
Clients == oracle_instance.clients

\* The round of job j has been joined (resolve_dispute is past the gather).
Joined(j) == kind[j] = "query" /\ responses[j] # <<>>

\* C1: when an attempt ends in the too-many-agents-failed condition the job is
\* attempted again, and it is marked failed for that reason only once the 2
\* retries beyond the first attempt are used up.
C1_FailedOnlyAfterRetries ==
    \A j \in Jobs :
        (status[j] = "failed"
         /\ error[j] = <<ErrorPrefix(kind[j]), "TooManyAgentsFailedError">>)
        => attempts[j] = HueyRetries + 1

\* C2: failed is terminal: once a job's status is failed, no later step changes
\* the job's status, result or error.
C2_FailedIsTerminal ==
    [][\A j \in Jobs :
          status[j] = "failed"
          => (status'[j] = "failed" /\ result'[j] = result[j] /\ error'[j] = error[j])]_vars

C2_Witness ==
    \E j \in Jobs : status[j] = "failed" /\ pc[j] = "done"

\* C3: a job is completed only with a stored result of a round in which at most 2
\* provider results carried an error; an attempt whose round raised
\* TooManyAgentsFailedError writes neither a result nor the completed status.
C3_CompletedOnlyBelowThreshold ==
    \A j \in Jobs :
        /\ status[j] = "completed"
           => (result[j].mode # "none" /\ FailedCount(result[j].llm_responses) <= 2)
        /\ exc[j] = "TooManyAgentsFailedError"
           => (status[j] \in {"processing", "failed"} /\ result[j] = NoResult)

C3_Witness ==
    \E j \in Jobs :
        /\ status[j] = "completed"
        /\ kind[j] = "query"
        /\ FailedCount(result[j].llm_responses) = 2

\* C4: resolve_dispute raises TooManyAgentsFailedError if and only if more than 2
\* of the collected results carry an error; otherwise the whole list, failures
\* included, goes to the scorer and a result is returned.
C4_RaisesIffMoreThanTwoFailed ==
    \A j \in Jobs :
        (Joined(j) /\ pc[j] \in {"sign", "except"}
         /\ exc[j] \in {None, "TooManyAgentsFailedError"})
        => /\ exc[j] = "TooManyAgentsFailedError" <=> FailedCount(responses[j]) > 2
           /\ FailedCount(responses[j]) <= 2
              => (local[j].mode # "none" /\ local[j].llm_responses = responses[j])

C4_Witness ==
    \E j \in Jobs :
        /\ Joined(j)
        /\ Len(responses[j]) = 5
        /\ FailedCount(responses[j]) = 3
        /\ exc[j] = "TooManyAgentsFailedError"

\* C5: a provider whose query raises gets its own result (uncertain, confidence
\* 0.0, error = the exception text) and the round still yields exactly one result
\* per configured provider, the other providers' answers included.
C5_ExceptionIsolated ==
    \A j \in Jobs :
        Joined(j)
        => /\ Len(responses[j]) = Len(Clients)
           /\ \A k \in 1..Len(Clients) :
                Cardinality({i \in 1..Len(responses[j]) :
                               responses[j][i].provider = Clients[k]}) = 1
           /\ \A i \in 1..Len(Clients) :
                /\ call[j][i].kind = "raise"
                   => \E r \in {responses[j][n] : n \in 1..Len(responses[j])} :
                        /\ r.provider = Clients[i]
                        /\ r.decision = "uncertain"
                        /\ r.confidence = 0
                        /\ r.error = call[j][i].text
                /\ call[j][i].kind = "return"
                   => \E r \in {responses[j][n] : n \in 1..Len(responses[j])} :
                        /\ r.provider = Clients[i]
                        /\ r.decision = call[j][i].resp.decision
                        /\ r.confidence = call[j][i].resp.confidence
                        /\ r.error = call[j][i].resp.error

C5_Witness ==
    \E j \in Jobs :
        /\ Joined(j)
        /\ \E i \in 1..Len(Clients) : call[j][i].kind = "raise"
        /\ \E i \in 1..Len(Clients) :
             call[j][i].kind = "return" /\ call[j][i].resp.error = None

\* C6: a job whose round contains a provider call that never settles is still
\* timed out and marked failed; it does not stay in processing forever.
C6_HungRoundIsFailed ==
    \A j \in Jobs :
        (\E i \in DOMAIN call[j] : call[j][i].kind = "hung") ~> (status[j] = "failed")

\* C7: the result list of a round, and the llm_responses of its result, hold at
\* position i the result of the i-th configured provider whatever the order in
\* which the calls completed, and the join happens only once every call has
\* settled.
C7_ConfiguredOrder ==
    \A j \in Jobs :
        Joined(j)
        => /\ \A i \in DOMAIN call[j] : Settled(call[j][i])
           /\ responses[j] = [i \in 1..Len(Clients) |-> SafeQuery(Clients[i], call[j][i])]
           /\ local[j].mode # "none" => local[j].llm_responses = responses[j]

C7_Witness ==
    \E j \in Jobs : Joined(j) /\ outOfOrder[j] /\ local[j].mode # "none"

\* C8: every result of the fan-out carries the configuration key of its client
\* as provider tag, whatever name the adapter's payload carried, on the success
\* path and on the exception path.
C8_ProviderTagIsConfigKey ==
    \A j \in Jobs :
        \A i \in 1..Len(responses[j]) :
            responses[j][i].provider = IF kind[j] = "tweet" THEN "grok" ELSE Clients[i]

C8_Witness ==
    \E j \in Jobs :
        /\ Joined(j)
        /\ \E i \in 1..Len(Clients) :
             /\ call[j][i].kind = "return"
             /\ call[j][i].resp.provider # Clients[i]
             /\ responses[j][i].provider = Clients[i]

\* C9: no exception of a job attempt leaves the task: the attempt ends with the
\* job completed with a result, or failed with the message of the exception.
C9_NoRawException ==
    \A j \in Jobs :
        /\ ~raised[j]
        /\ pc[j] \in {"return", "done"} => status[j] \in {"completed", "failed"}
        /\ (pc[j] = "return" /\ exc[j] # None)
           => (status[j] = "failed" /\ error[j] = <<ErrorPrefix(kind[j]), exc[j]>>)
        /\ status[j] = "completed" => result[j].mode # "none"
        /\ status[j] = "failed" => error[j] # NoError

C9_Witness ==
    \E j \in Jobs :
        /\ pc[j] = "return"
        /\ exc[j] = "SigningError"
        /\ status[j] = "failed"

\* The two class sums of the scored input, before normalisation, in the mode of
\* the result, and the sum of the uncertain class.
ScoredValid == ValidResponses(in_responses)
ScoredTW == TotalWeight(in_weights, ScoredValid)
ScoredSum(c) ==
    IF scored.mode = "tweet"
    THEN ClassScore(in_weights, ScoredValid, "tweet", c)
    ELSE IF scored.mode = "dispute"
    THEN ClassScore(in_weights, ScoredValid, "dispute", c)
    ELSE ClassScore(in_weights, ScoredValid, "legacy",
                    IF c = "A" THEN "yes" ELSE IF c = "B" THEN "no" ELSE c)
Max2(x, y) == IF x >= y THEN x ELSE y

\* Both class scores positive and less than 0.01 apart after normalisation.
TwoClassTie ==
    /\ scored.mode \in {"dispute", "legacy"}
    /\ ScoredTW > 0
    /\ ScoredSum("A") > 0
    /\ ScoredSum("B") > 0
    /\ Abs(ScoredSum("A") - ScoredSum("B")) < ScoredTW

\* C10 as stated: on a two-class tie the final decision is uncertain and the
\* final confidence is the tied score.
C10_TieGivesTiedScore ==
    TwoClassTie
    => /\ scored.final_decision = "uncertain"
       /\ \/ RatEq(scored.final_confidence, <<ScoredSum("A"), 100 * ScoredTW>>)
          \/ RatEq(scored.final_confidence, <<ScoredSum("B"), 100 * ScoredTW>>)

\* C10 as amended: on a two-class tie the final decision is uncertain and the
\* final confidence is the largest of the three normalized scores: the larger
\* tied score unless the uncertain class scores higher; two equal-weight
\* providers voting opposite classes at confidence c give uncertain at c/2.
C10_TieGivesWinningScore ==
    /\ TwoClassTie
       => /\ scored.final_decision = "uncertain"
          /\ RatEq(scored.final_confidence,
                   <<Max2(Max2(ScoredSum("A"), ScoredSum("B")), ScoredSum("uncertain")),
                     100 * ScoredTW>>)
    /\ (/\ scored.mode \in {"dispute", "legacy"}
        /\ Len(in_responses) = 2
        /\ Len(ScoredValid) = 2
        /\ WeightOf(in_weights, in_responses[1].provider)
             = WeightOf(in_weights, in_responses[2].provider)
        /\ in_responses[1].confidence = in_responses[2].confidence
        /\ in_responses[1].confidence > 0
        /\ ScoredSum("A") > 0
        /\ ScoredSum("B") > 0)
       => /\ scored.final_decision = "uncertain"
          /\ RatEq(scored.final_confidence, <<in_responses[1].confidence, 200>>)

C10_Witness ==
    /\ TwoClassTie
    /\ ScoredSum("A") # ScoredSum("B")
    /\ ScoredSum("uncertain") > Max2(ScoredSum("A"), ScoredSum("B"))
    /\ scored.final_decision = "uncertain"

\* Exactly one of the two class sums is positive and it exceeds the uncertain sum.
OnlyPositive(c, other) ==
    /\ scored.mode \in {"dispute", "legacy"}
    /\ ScoredTW > 0
    /\ ScoredSum(c) > 0
    /\ ScoredSum(other) = 0
    /\ ScoredSum(c) > ScoredSum("uncertain")

\* C11: when exactly one of the two class scores is positive and it is the
\* maximum score, that class is the final decision however small the score is,
\* whichever of the two sides it is.
C11_SinglePositiveSideWins ==
    /\ OnlyPositive("A", "B") => scored.final_decision = "A"
    /\ OnlyPositive("B", "A") => scored.final_decision = "B"

FinalClass(r) == IF r.mode = "tweet" THEN r.final_verdict ELSE r.final_decision
ModeClasses == IF scored.mode = "tweet" THEN TweetVerdicts ELSE {"A", "B", "uncertain"}
NeutralClass == IF scored.mode = "tweet" THEN "questionable" ELSE "uncertain"

\* The aggregation of the result's mode, applied to another response list.
Reaggregate(rs) ==
    IF scored.mode = "tweet" THEN AggregateTweetResponses(in_weights, rs)
    ELSE IF scored.mode = "dispute" THEN AggregateDisputeResponses(in_weights, rs)
    ELSE AggregateLegacyResponses(in_weights, rs)

SameOutcome(r1, r2) ==
    /\ FinalClass(r1) = FinalClass(r2)
    /\ RatEq(r1.final_confidence, r2.final_confidence)
    /\ r1.total_weight = r2.total_weight

\* Sum of the weights of the input responses without an error.
WeightSumOfValid ==
    LET f[i \in 0..Len(in_responses)] ==
          IF i = 0 THEN 0
          ELSE f[i - 1] + (IF in_responses[i].error = None
                           THEN (IF in_responses[i].provider \in DOMAIN in_weights
                                 THEN in_weights[in_responses[i].provider]
                                 ELSE 10)
                           ELSE 0)
    IN  f[Len(in_responses)]

\* C13: total_weight is the sum of the weights (1.0 when the provider is not in
\* the weight map) of the responses without an error; removing the failed
\* responses leaves final decision, final confidence and total_weight
\* unchanged, and llm_responses holds every input response.
C13_FailedResponsesWeighNothing ==
    scored.mode # "none"
    => /\ scored.total_weight = WeightSumOfValid
       /\ scored.llm_responses = in_responses
       /\ SameOutcome(scored, Reaggregate(ScoredValid))
       /\ \A i \in 1..Len(in_responses) :
             in_responses[i].error # None
             => SameOutcome(scored,
                   Reaggregate([k \in 1..(Len(in_responses) - 1) |->
                                  IF k < i THEN in_responses[k] ELSE in_responses[k + 1]]))

C13_Witness ==
    /\ scored.mode = "tweet"
    /\ Len(in_responses) = 3
    /\ in_responses[1].error # None
    /\ in_responses[2].error = None
    /\ in_responses[3].error = None
    /\ "perplexity" \notin DOMAIN in_weights
    /\ scored.total_weight = 20
    /\ scored.final_verdict = "misleading"

\* C14: when every response of the input carries an error, the result has the
\* neutral class of its mode (uncertain, questionable for tweets), confidence
\* 0.0, total_weight 0 and an explanation stating that all providers failed.
C14_AllFailedIsNeutral ==
    (scored.mode # "none" /\ \A i \in 1..Len(in_responses) : in_responses[i].error # None)
    => /\ FinalClass(scored) = NeutralClass
       /\ scored.final_confidence[1] = 0
       /\ scored.total_weight = 0
       /\ scored.explanation.all_failed
       /\ scored.explanation.lines = <<>>

C14_Witness ==
    /\ scored.mode = "legacy"
    /\ Len(in_responses) = 3
    /\ \A i \in 1..3 : in_responses[i].error # None
    /\ scored.final_decision = "uncertain"
    /\ scored.explanation.all_failed

\* The tie branch of the two-class modes is taken.
TieRuleTaken ==
    /\ scored.mode \in {"dispute", "legacy"}
    /\ Abs(ScoredSum("A") - ScoredSum("B")) < ScoredTW
    /\ ScoredSum("A") > 0

EqualWeights ==
    \A i, k \in 1..Len(in_responses) :
        WeightOf(in_weights, in_responses[i].provider)
          = WeightOf(in_weights, in_responses[k].provider)

ParserReturned == parsed.parser # "none" /\ parsed.exc = None

\* The raw text is one unfenced JSON object; its fields.
InputIsObject ==
    /\ Len(raw_response.parts) = 1
    /\ raw_response.parts[1].doc.json
    /\ raw_response.parts[1].doc.value.t = "obj"
InputField(key) == Get(raw_response.parts[1].doc.value, key, Absent)

\* The raw text is one unfenced text that is not JSON; its lines.
InputIsLegacy == Len(raw_response.parts) = 1 /\ ~raw_response.parts[1].doc.json
InputLines == raw_response.parts[1].doc.lines

\* C16: the parsers never raise: whatever the raw text, _parse_response and
\* _parse_tweet_response return a tuple, and for JSON that is not an object the
\* tuple is the uncertain class of the mode with confidence 0.5.
C16_ParserNeverRaises ==
    parsed.parser # "none"
    => /\ parsed.exc = None
       /\ (Len(raw_response.parts) = 1 /\ raw_response.parts[1].doc.json
           /\ raw_response.parts[1].doc.value.t # "obj")
          => /\ parsed.decision = (IF parsed.parser = "tweet" THEN Lit.questionable
                                   ELSE Lit.uncertain)
             /\ parsed.confidence = Fin(50)

\* C17: for every confidence input the parser returns a confidence in
\* [0.0, 1.0]: a JSON number is clamped, a missing, null or unparsable value
\* gives 0.5, on the JSON path of both modes and on the CONFIDENCE: line of the
\* keyword path. (JSON true, NaN and numeric strings are only asked to land in
\* the range.)
C17_ConfidenceInUnitRange ==
    /\ (parsed.parser # "none" /\ InputIsObject)
       => /\ parsed.exc = None
          /\ parsed.confidence.k = "fin"
          /\ parsed.confidence.v >= 0
          /\ parsed.confidence.v <= 100
          /\ InputField(Key.confidence).t = "float"
             => parsed.confidence.v
                  = (IF InputField(Key.confidence).n > 100 THEN 100
                     ELSE IF InputField(Key.confidence).n < 0 THEN 0
                     ELSE InputField(Key.confidence).n)
          /\ InputField(Key.confidence) \in {Absent, JNull, JStr(Txt.high)}
             => parsed.confidence.v = 50
    /\ (parsed.parser # "none" /\ InputIsLegacy)
       => /\ parsed.exc = None
          /\ parsed.confidence.k = "fin"
          /\ parsed.confidence.v >= 0
          /\ parsed.confidence.v <= 100
          /\ (parsed.parser = "query"
              /\ \E i \in 1..Len(InputLines) : InputLines[i] = Line.confidence_15)
             => parsed.confidence.v = 100
          /\ (\A i \in 1..Len(InputLines) :
                InputLines[i] \in {Line.prose, Line.decision_yes, Line.confidence_high,
                                   Line.reasoning_ok, Line.more})
             => parsed.confidence.v = 50

\* C18: on the JSON path the emitted class is always in the closed set of its
\* mode, compared without regard to case: a decision outside yes, no,
\* uncertain, or absent, gives uncertain; a winning party outside A, B, Draw
\* gives uncertain, and so does Draw; a verdict outside credible, questionable,
\* misleading, opinion gives questionable.
C18_JsonClassInClosedSet ==
    (ParserReturned /\ InputIsObject)
    => IF parsed.parser = "tweet"
       THEN /\ parsed.decision \in {Lit.credible, Lit.questionable, Lit.misleading,
                                    Lit.opinion}
            /\ InputField(Key.verdict) = JStr(Txt.Misleading_padded)
               => parsed.decision = Lit.misleading
            /\ InputField(Key.verdict) \in {Absent, JNull, JStr(Txt.fake)}
               => parsed.decision = Lit.questionable
       ELSE /\ parsed.decision \in {Lit.yes, Lit.no, Lit.uncertain}
            /\ parsed.winning_party \in {None, "A", "B", "uncertain"}
            /\ InputField(Key.winning_party) \in {JStr(Txt.C), JInt(7), JStr(Txt.Draw)}
               => parsed.winning_party = "uncertain" /\ parsed.decision = Lit.uncertain
            /\ InputField(Key.winning_party) \in {JStr(Lit.A), JStr(Txt.a_lower)}
               => parsed.winning_party = "A"
            /\ InputField(Key.winning_party) = JStr(Lit.B) => parsed.winning_party = "B"
            /\ InputField(Key.winning_party) \in {Absent, JNull}
               => /\ parsed.winning_party = None
                  /\ InputField(Key.decision) \in {Absent, JNull, JStr(Txt.maybe)}
                     => parsed.decision = Lit.uncertain
                  /\ InputField(Key.decision) = JStr(Txt.YES_padded)
                     => parsed.decision = Lit.yes
                  /\ InputField(Key.decision) = JStr(Txt.No) => parsed.decision = Lit.no

C18_Witness ==
    /\ ParserReturned
    /\ InputIsObject
    /\ parsed.parser = "query"
    /\ InputField(Key.winning_party) = Absent
    /\ InputField(Key.decision) = JStr(Txt.maybe)
    /\ parsed.decision = Lit.uncertain

\* The text after DECISION: of the only decision line of a keyword text.
OneDecisionLine(line) ==
    /\ InputIsLegacy
    /\ \E i \in 1..Len(InputLines) : InputLines[i] = line
    /\ \A i \in 1..Len(InputLines) :
          InputLines[i] \in {Line.prose, line, Line.confidence_085, Line.confidence_15,
                             Line.confidence_neg, Line.confidence_high, Line.confidence_nan,
                             Line.reasoning_ok, Line.reasoning_empty, Line.more}

\* C19: on the keyword path, a text after DECISION: that is not yes, no or
\* uncertain (in any case) gives the decision uncertain.
C19_LegacyMalformedIsUncertain ==
    \A line \in {Line.decision_maybe, Line.decision_unknown, Line.decision_eyes,
                 Line.decision_empty} :
        (ParserReturned /\ parsed.parser = "query" /\ OneDecisionLine(line))
        => parsed.decision = Lit.uncertain

\* The rationale field of the input is null, absent or only whitespace.
NoRationaleGiven(key) == InputField(key) \in {Absent, JNull, JStr(Txt.blank)}

HasAnnotations ==
    \/ InputField(Key.winning_party) \in {JStr(Lit.A), JStr(Txt.a_lower), JStr(Lit.B),
                                          JStr(Txt.Draw)}
    \/ InputField(Key.contract_validity) # Absent
    \/ InputField(Key.injection_detected) # Absent

InputIsFenced == Len(raw_response.parts) >= 2
FencedDoc == raw_response.parts[2].doc

\* C21: when the raw text holds a fence, the text handed to the JSON parser is
\* what follows the first opening fence, its language tag stripped, up to the
\* next fence or to the end of the text. Later fenced blocks are ignored, so
\* prose followed by a fenced JSON object, closed or not, gives the decision,
\* confidence and rationale of that object alone.
C21_FirstFenceContent ==
    (ParserReturned /\ parsed.parser = "query" /\ InputIsFenced)
    => /\ CleanJsonText(raw_response) = FencedDoc
       /\ FencedDoc.json
          => parsed = [ParseResponse(Raw(<<Part(<<>>, FencedDoc)>>))
                         EXCEPT !.parser = "query"]

\* The entries of a JSON list that are not blank, stripped, in input order: a
\* blank entry is null, or a string that is empty or only whitespace.
NonBlankEntries(value) ==
    LET NotBlank(v) == v.t # "null" /\ (v.t = "str" => Strip(v.s) # <<>>) /\ Truthy(v)
        kept == SelectSeq(value.items, NotBlank)
    IN  [i \in 1..Len(kept) |-> Strip(PyStr(kept[i]))]

\* C22: in credibility mode the claims and the flags are lists of strings in
\* input order. A value that is not a list gives the empty list, and blank
\* entries (empty or only whitespace) are dropped, so no entry of either list
\* is the empty string.
C22_ListsHoldNoBlankEntry ==
    (ParserReturned /\ parsed.parser = "tweet" /\ InputIsObject)
    => /\ InputField(Key.identified_claims).t \notin {"list", "absent"}
          => parsed.identified_claims = <<>>
       /\ InputField(Key.red_flags).t \notin {"list", "absent"}
          => parsed.red_flags = <<>>
       /\ InputField(Key.identified_claims).t = "list"
          => parsed.identified_claims = NonBlankEntries(InputField(Key.identified_claims))
       /\ InputField(Key.red_flags).t = "list"
          => parsed.red_flags = NonBlankEntries(InputField(Key.red_flags))
       /\ \A i \in 1..Len(parsed.identified_claims) : parsed.identified_claims[i] # <<>>
       /\ \A i \in 1..Len(parsed.red_flags) : parsed.red_flags[i] # <<>>

\* Mock mode is off and fewer than two providers have an API key that is set
\* and not blank.
TooFewProviders == ~settings.debug_mock /\ Cardinality(settings.keys) < 2

\* C23: with mock mode off and fewer than two providers holding a non-blank API
\* key, constructing the Oracle raises a configuration error: no Oracle is ever
\* built, no provider is queried, no round is scored and no job reaches
\* completed. The error is not recoverable per query: every job that gets as
\* far as get_oracle() ends failed with the configuration error.
C23_TooFewProvidersIsFatal ==
    TooFewProviders
    => /\ ~oracle_instance.built
       /\ \A j \in Jobs :
            /\ call[j] = <<>> /\ slots[j] = <<>> /\ responses[j] = <<>>
            /\ local[j] = NoResult /\ result[j] = NoResult
            /\ status[j] # "completed"
            /\ pc[j] \notin {"return_oracle", "run", "gather", "await_grok", "sign", "store"}
            /\ oracle[j] = NoOracle
            /\ pc[j] = "except"
               => exc[j] = "ValueError: At least 2 LLM providers are required"
            /\ (pc[j] \in {"return", "done"} \/ attempts[j] > 1)
               => /\ status[j] = "failed"
                  /\ error[j] = <<ErrorPrefix(kind[j]),
                                  "ValueError: At least 2 LLM providers are required">>

C23_Witness ==
    /\ TooFewProviders
    /\ Cardinality(settings.keys) = 1
    /\ pc[1] = "done"
    /\ status[1] = "failed"
    /\ error[1] = <<ErrorPrefix(kind[1]), "ValueError: At least 2 LLM providers are required">>

GrokFailed(j) ==
    /\ kind[j] = "tweet"
    /\ call[j] # <<>>
    /\ LET c == call[j][IndexOf(oracle_instance.clients, "grok")]
       IN  c.kind = "raise" \/ (c.kind = "return" /\ c.resp.error # None)

\* C25: analyze_tweet queries the grok client only. Without a grok client it
\* raises a configuration error and queries nobody. When Grok's result carries
\* an error it raises TooManyAgentsFailedError and aggregates nothing.
\* Otherwise the result holds exactly one response, Grok's, with no error.
C25_TweetAsksGrokOnly ==
    \A j \in Jobs :
      kind[j] = "tweet"
      => /\ \A i \in DOMAIN call[j] :
              oracle_instance.clients[i] # "grok" => call[j][i] = Idle
         /\ (oracle_instance.built /\ ~InSeq(oracle_instance.clients, "grok"))
            => /\ call[j] = <<>> /\ responses[j] = <<>>
               /\ local[j] = NoResult /\ result[j] = NoResult
               /\ pc[j] \notin {"await_grok", "sign", "store"}
               /\ pc[j] = "except" => exc[j] = "ValueError: Grok API key is required"
         /\ GrokFailed(j)
            => /\ local[j] = NoResult /\ result[j] = NoResult
               /\ pc[j] \in {"except", "return"}
               /\ pc[j] = "except" => exc[j] = "TooManyAgentsFailedError"
               /\ status[j] # "completed"
         /\ \A r \in {local[j], result[j]} :
              r # NoResult
              => /\ r.mode = "tweet"
                 /\ Len(r.llm_responses) = 1
                 /\ r.llm_responses[1].provider = "grok"
                 /\ r.llm_responses[1].error = None

C25_Witness ==
    /\ kind[1] = "tweet"
    /\ oracle_instance.built
    /\ Len(oracle_instance.clients) = 5
    /\ status[1] = "completed"
    /\ Len(result[1].llm_responses) = 1
    /\ result[1].llm_responses[1].provider = "grok"
    /\ call[1] # <<>>
    /\ \A i \in DOMAIN call[1] : oracle_instance.clients[i] # "grok" => call[1][i] = Idle

\* C26: if every provider call of every round eventually settles (none hangs),
\* every job whose task was enqueued eventually reaches completed or failed,
\* and no job is left in processing once the execution of its task has ended.
C26_SettlingRoundsFinish ==
    /\ [](\A j \in Jobs :
            pc[j] \in {"return", "done"} => status[j] \in {"completed", "failed"})
    /\ ([](\A j \in Jobs : \A i \in DOMAIN call[j] : call[j][i].kind # "hung"))
       => \A j \in Jobs :
            (pc[j] # "absent") ~> (pc[j] = "done" /\ status[j] \in {"completed", "failed"})

C26_Witness ==
    /\ kind[1] = "query"
    /\ pc[1] = "return"
    /\ status[1] = "failed"
    /\ Len(call[1]) = 5
    /\ \A i \in DOMAIN call[1] : call[1][i].kind \in {"return", "raise"}
    /\ \E i \in DOMAIN call[1] : call[1][i].kind = "return" /\ call[1][i].resp.error = None

\* Every response of the result carries an error, so its total weight is 0.
AllResponsesFailed(r) ==
    /\ r # NoResult
    /\ \A i \in DOMAIN r.llm_responses : r.llm_responses[i].error # None

\* C27: with 2 to 5 configured providers a job is never marked completed with
\* a result in which every response carries an error (total weight 0).
C27_NeverCompletedAllFailed ==
    \A j \in Jobs :
      (oracle_instance.built /\ Len(oracle_instance.clients) \in 2..5
       /\ status[j] = "completed")
      => ~AllResponsesFailed(result[j]) /\ result[j].total_weight > 0

\* The LLMResponse a client builds from the tuple the parser returned.
ParsedResponse ==
    [provider |-> "claude",
     decision |-> IF parsed.decision = Lit.yes THEN "yes"
                  ELSE IF parsed.decision = Lit.no THEN "no" ELSE "uncertain",
     winning_party |-> parsed.winning_party,
     confidence |-> 0,
     error |-> None]

\* C28: the (decision, winning_party) pair _parse_response returns agrees with
\* the mapping the scorer uses when winning_party is absent (yes with A, no
\* with B, uncertain with uncertain). winning_party B never comes with decision
\* yes, so scoring a parsed response by its decision and by its winning_party
\* credits the same class.
C28_DecisionAgreesWithParty ==
    (ParserReturned /\ parsed.parser = "query" /\ parsed.winning_party # None)
    => /\ DisputeClass([ParsedResponse EXCEPT !.winning_party = None])
            = DisputeClass(ParsedResponse)
       /\ ~(parsed.winning_party = "B" /\ parsed.decision = Lit.yes)

\* C29: for responses whose confidences lie in [0, 1] and weight maps with
\* positive weights, the result of every aggregation mode (legacy, dispute,
\* tweet) has 0 <= final_confidence <= 1 and total_weight >= 0, the bounds of
\* the result model.
C29_ConfidenceWithinBounds ==
    scored.mode # "none"
    => /\ scored.final_confidence[2] > 0
       /\ 0 <= scored.final_confidence[1]
       /\ scored.final_confidence[1] <= scored.final_confidence[2]
       /\ scored.total_weight >= 0

C29_Witness ==
    /\ scored.mode = "dispute"
    /\ Len(in_responses) = 3
    /\ \A i \in 1..3 : in_responses[i].error = None /\ in_responses[i].confidence = 100
    /\ scored.total_weight > 0
    /\ scored.final_confidence[1] = scored.final_confidence[2]

\* C30: under any interleaving of the get_oracle() calls of concurrently
\* running job tasks, at most one Oracle instance is ever constructed, and every
\* caller receives that same instance.
C30_OneOracleForAll ==
    /\ oracle_instance.built => oracle_instance.id = 1
    /\ \A j, k \in Jobs :
         (oracle[j].built /\ oracle[k].built) => oracle[j] = oracle[k]

====
